---- MODULE Spec2Model ----
(***************************************************************************)
(* Pagination engine of spotify-rs (src/spotify-rs/src/model.rs):          *)
(* Page<T> and CursorPage<T, E>, their single-step traversal operations    *)
(* (get_next, get_previous, get_after, get_before) and their aggregation   *)
(* operations (get_remaining, get_all).                                    *)
(*                                                                         *)
(* Every async fn is cut at its .await points: the call up to the first    *)
(* request, the continuation run when the response arrives, and the        *)
(* continuation run when tokio::time::sleep completes.                     *)
(***************************************************************************)
EXTENDS Integers, Sequences, FiniteSets, TLC

\* ------------------------------------------------------------------------
\* Program constants
\* ------------------------------------------------------------------------
PAGE_MAX_LIMIT == 50
PAGINATION_INTERVAL == 100

\* ------------------------------------------------------------------------
\* Bounds of the model
\* ------------------------------------------------------------------------
\* The server's list has pages at positions -MaxPos .. MaxPos around the
\* initial page (position 0).
MaxPos == 2
\* Cap on the number of requests one call may issue (a looping server
\* would otherwise be followed forever).
MaxFetches == 5
\* A page of the server carries at most MaxItems item slots.
MaxItems == 2
\* A page limit other than PAGE_MAX_LIMIT.
OtherLimit == 20
MaxSlots == 3
MaxValue == 2
MaxRepeats == 2

VARIABLES
    calls,   \* calls[c]: the state of call c (one async fn invocation)
    server,  \* the responses the server has given so far, by kind and position
    list     \* the server's list: the total it reports and its item layout

vars == <<calls, server, list>>

\* ------------------------------------------------------------------------
\* Values
\* ------------------------------------------------------------------------
\* Option<X>: None is the empty sequence, Some(x) the one-element sequence.
None == <<>>
Some(x) == <<x>>
is_some(o) == Len(o) = 1
unwrap(o) == o[1]

\* Result<X>
Ok(v) == [ok |-> TRUE, val |-> v]
Err(e) == [ok |-> FALSE, err |-> e]

\* crate::Error: the variant the traversal raises itself, and the variants
\* the client raises.
NoRemainingPages == "NoRemainingPages"
RequestErrors == {"Transport", "Deserialization"}

\* The calls a behaviour may hold.
CallIds == {1, 2}

Kinds == {"Page", "CursorPage"}
Positions == (0 - MaxPos) .. MaxPos
Limits == {OtherLimit, PAGE_MAX_LIMIT}
Totals == {0, 9}
Layouts == 0 .. MaxItems

\* Strings are sequences of segments. API_URL is the origin segment the
\* client prepends to every path; Path(pos) is the path and query of the
\* list page at position pos.
API_URL == [seg |-> "origin", id |-> 0]
Path(pos) == [seg |-> "path", id |-> pos]
Href(pos) == <<API_URL, Path(pos)>>

\* str::replace(from, ""): every occurrence of the segment is removed.
replace(s, from) == SelectSeq(s, LAMBDA t : t # from)

\* u32::to_string: the decimal text of n, a string and not a number.
to_string(n) == [decimal |-> n]

\* A cursor token addressing the page at position pos.
Token(pos) == [token |-> pos]

\* The Endpoint Descriptor E: its Default value, and the URL a value
\* resolves to.
DefaultEndpoint == 0
endpoint_url(e) == <<[seg |-> "endpoint", id |-> e]>>

\* ------------------------------------------------------------------------
\* The server's list
\* ------------------------------------------------------------------------
Abs(n) == IF n < 0 THEN 0 - n ELSE n

\* The item slots of the page at position pos: Vec<Option<T>>. The values
\* are distinct over the whole list; the layout decides the page sizes and
\* where the null slots are.
ItemsAt(pos, layout) ==
    [j \in 1 .. ((Abs(pos) + layout) % (MaxItems + 1)) |->
        IF (pos + j + layout) % 2 = 0 THEN None ELSE Some(10 * pos + j)]

\* The positions a page at pos may link to, as an Option: a page between
\* the initial page and the walk's direction always links back towards the
\* initial page; a page further out may be the last one; the outermost
\* page is the last one or loops back to the first page of its side.
FwdChoices(pos) ==
    IF pos < 0 THEN {Some(pos + 1)}
    ELSE IF pos < MaxPos THEN {None, Some(pos + 1)}
    ELSE {None, Some(1)}

BackChoices(pos) ==
    IF pos > 0 THEN {Some(pos - 1)}
    ELSE IF pos > 0 - MaxPos THEN {None, Some(pos - 1)}
    ELSE {None, Some(0 - 1)}

OptHref(o) == IF is_some(o) THEN Some(Href(unwrap(o))) ELSE None
OptToken(o) == IF is_some(o) THEN Some(Token(unwrap(o))) ELSE None

\* struct Page<T>, as the server serialises the page at pos.
PageChoices(pos) ==
    { [href |-> Href(pos), limit |-> l, next |-> OptHref(n), offset |-> pos + MaxPos,
       previous |-> OptHref(p), total |-> list.total,
       items |-> ItemsAt(pos, list.layout)] :
        l \in Limits, n \in FwdChoices(pos), p \in BackChoices(pos) }

\* struct Cursor
CursorChoices(pos) ==
    { Some([after |-> OptToken(a), before |-> OptToken(b)]) :
        a \in FwdChoices(pos), b \in BackChoices(pos) }
    \cup (IF None \in FwdChoices(pos) \cup BackChoices(pos) THEN {None} ELSE {})

CursorHasAfter(cu) == is_some(cu) /\ is_some(unwrap(cu).after)

\* struct CursorPage<T, E>, as the server serialises it (the endpoint field
\* is #[serde(skip)]: it is not part of the JSON).
CursorPageChoices(pos) ==
    { [href |-> Href(pos), limit |-> l,
       next |-> IF CursorHasAfter(cu) THEN Some(Href(pos + 1)) ELSE None,
       cursors |-> cu,
       total |-> IF list.total = 0 THEN None ELSE Some(list.total),
       items |-> ItemsAt(pos, list.layout)] :
        l \in Limits, cu \in CursorChoices(pos) }

JsonChoices(kind, pos) ==
    IF kind = "Page" THEN PageChoices(pos) ELSE CursorPageChoices(pos)

\* serde: a Page is its JSON; a CursorPage gets endpoint = E::default().
Deserialize(kind, json) ==
    IF kind = "Page" THEN json
    ELSE [href |-> json.href, limit |-> json.limit, next |-> json.next,
          cursors |-> json.cursors, total |-> json.total, items |-> json.items,
          endpoint |-> DefaultEndpoint]

\* ------------------------------------------------------------------------
\* The request capability: Client::get(path, query)
\* ------------------------------------------------------------------------
Get(path, query) == [path |-> path, query |-> query]

\* The position a request addresses, None when it addresses no page.
\* Offset pages: the client prepends API_URL to the path.
\* Cursor pages: the page is addressed by the after / before token.
Resolve(kind, req) ==
    IF kind = "Page"
    THEN LET hit == {pos \in Positions : <<API_URL>> \o req.path = Href(pos)}
         IN IF hit = {} THEN None ELSE Some(CHOOSE pos \in hit : TRUE)
    ELSE Some(req.query[1][2].token)

\* The responses the server may give to a request it sees for the first
\* time: Result<Self> after deserialization.
Responses(kind, target) ==
    IF ~is_some(target) THEN {Err("Transport")}
    ELSE { Ok(Deserialize(kind, j)) : j \in JsonChoices(kind, unwrap(target)) }
         \cup { Err(e) : e \in RequestErrors }

\* An async call either finishes at once or awaits a request.
Pending(req) == [pending |-> TRUE, req |-> req]
Ready(res) == [pending |-> FALSE, res |-> res]

\* ------------------------------------------------------------------------
\* Single-step traversal
\* ------------------------------------------------------------------------
\* A faulty get_next: the stored URL is passed on as the path, origin
\* included.
get_next_unstripped(self) ==
    IF ~is_some(self.next) THEN Ready(Err(NoRemainingPages))
    ELSE Pending(Get(unwrap(self.next), << <<"limit", self.limit>> >>))

\* Page::get_next
get_next(self) ==
    IF ~is_some(self.next) THEN Ready(Err(NoRemainingPages))
    ELSE LET next == replace(unwrap(self.next), API_URL)
         IN Pending(Get(next, << <<"limit", self.limit>> >>))

\* Page::get_previous
get_previous(self) ==
    IF ~is_some(self.previous) THEN Ready(Err(NoRemainingPages))
    ELSE LET previous == replace(unwrap(self.previous), API_URL)
         IN Pending(Get(previous, << <<"limit", self.limit>> >>))

\* A faulty get_before: the request goes to the page's own next URL when
\* the page has one.
get_before_via_next(self) ==
    IF ~is_some(self.cursors) THEN Ready(Err(NoRemainingPages))
    ELSE LET cursors == unwrap(self.cursors) IN
         IF ~is_some(cursors.before) THEN Ready(Err(NoRemainingPages))
         ELSE Pending(Get(IF is_some(self.next) THEN replace(unwrap(self.next), API_URL)
                          ELSE endpoint_url(self.endpoint),
                          << <<"before", unwrap(cursors.before)>>,
                             <<"limit", to_string(self.limit)>> >>))

\* CursorPage::get_before
get_before(self) ==
    IF ~is_some(self.cursors) THEN Ready(Err(NoRemainingPages))
    ELSE LET cursors == unwrap(self.cursors) IN
         IF ~is_some(cursors.before) THEN Ready(Err(NoRemainingPages))
         ELSE Pending(Get(endpoint_url(self.endpoint),
                          << <<"before", unwrap(cursors.before)>>,
                             <<"limit", to_string(self.limit)>> >>))

\* A faulty get_after: an absent after token is replaced by a default token
\* instead of ending the traversal.
get_after_defaulting(self) ==
    IF ~is_some(self.cursors) THEN Ready(Err(NoRemainingPages))
    ELSE LET cursors == unwrap(self.cursors) IN
         Pending(Get(endpoint_url(self.endpoint),
                     << <<"after", IF is_some(cursors.after) THEN unwrap(cursors.after)
                                   ELSE Token(0)>>,
                        <<"limit", to_string(self.limit)>> >>))

\* A faulty get_after: the request goes to the page's own href.
get_after_via_href(self) ==
    IF ~is_some(self.cursors) THEN Ready(Err(NoRemainingPages))
    ELSE LET cursors == unwrap(self.cursors) IN
         IF ~is_some(cursors.after) THEN Ready(Err(NoRemainingPages))
         ELSE Pending(Get(replace(self.href, API_URL),
                          << <<"after", unwrap(cursors.after)>>,
                             <<"limit", to_string(self.limit)>> >>))

\* CursorPage::get_after
get_after(self) ==
    IF ~is_some(self.cursors) THEN Ready(Err(NoRemainingPages))
    ELSE LET cursors == unwrap(self.cursors) IN
         IF ~is_some(cursors.after) THEN Ready(Err(NoRemainingPages))
         ELSE Pending(Get(endpoint_url(self.endpoint),
                          << <<"after", unwrap(cursors.after)>>,
                             <<"limit", to_string(self.limit)>> >>))

\* The traversal operation the forward / backward walk of each kind calls.
forward_step(kind, page) ==
    IF kind = "Page" THEN get_next(page) ELSE get_after(page)

backward_step(kind, page) ==
    IF kind = "Page" THEN get_previous(page) ELSE get_before(page)

\* ------------------------------------------------------------------------
\* Items without the null slots
\* ------------------------------------------------------------------------
RECURSIVE into_iter_flatten(_)
\* items.into_iter().flatten(): an Option yields its value if it has one.
into_iter_flatten(items) ==
    IF items = <<>> THEN <<>>
    ELSE (IF is_some(Head(items)) THEN <<unwrap(Head(items))>> ELSE <<>>)
         \o into_iter_flatten(Tail(items))

\* A faulty filtered_items: the values up to the first null slot.
filtered_items_until_none(self) ==
    LET nulls == {i \in 1..Len(self.items) : ~is_some(self.items[i])}
        n == IF nulls = {} THEN Len(self.items)
             ELSE (CHOOSE i \in nulls : \A j \in nulls : i <= j) - 1
    IN [i \in 1..n |-> unwrap(self.items[i])]

\* Page::filtered_items, CursorPage::filtered_items
filtered_items(self) == into_iter_flatten(self.items)

\* ------------------------------------------------------------------------
\* Call records
\* ------------------------------------------------------------------------
SingleOps == {"get_next", "get_previous", "get_after", "get_before"}
AggOps == {"get_remaining", "get_all"}
OpsOf(kind) ==
    IF kind = "Page" THEN {"get_next", "get_previous"} \cup AggOps
    ELSE {"get_after", "get_before"} \cup AggOps

Ev(type, dir, data) == [type |-> type, dir |-> dir, data |-> data]

NumRequests(cl) == Len(SelectSeq(cl.trace, LAMBDA e : e.type = "request"))

\* The call awaits spotify.get(...).
Issue(cl, dir, page, items, req) ==
    [cl EXCEPT !.pc = "await", !.dir = dir, !.page = page, !.items = items,
               !.req = req, !.trace = Append(@, Ev("request", dir, req))]

\* The call returns res to its caller.
Return(cl, res) == [cl EXCEPT !.pc = "done", !.result = res]

\* ------------------------------------------------------------------------
\* Aggregation: the pieces of get_remaining and get_all
\* ------------------------------------------------------------------------
\* if page.next.is_some()  /  if let Some(ref cursors) = page.cursors
\*                               { if cursors.after.is_some() .. }
has_forward(kind, page) ==
    IF kind = "Page" THEN is_some(page.next)
    ELSE is_some(page.cursors) /\ is_some(unwrap(page.cursors).after)

\* if self.previous.is_some()  /  if let Some(ref cursors) = self.cursors
\*                                   { if cursors.before.is_some() .. }
has_backward(kind, page) ==
    IF kind = "Page" THEN is_some(page.previous)
    ELSE is_some(page.cursors) /\ is_some(unwrap(page.cursors).before)

\* let mut items = std::mem::take(&mut self.items);
\* self.limit = PAGE_MAX_LIMIT;
take_items(self) == [self EXCEPT !.items = <<>>, !.limit = PAGE_MAX_LIMIT]

\* A faulty append: the null slots of p.items are dropped on the way.
append_compacting(items, p_items) == items \o SelectSeq(p_items, is_some)

\* items.append(&mut p.items): every slot of p.items moves to the end of
\* the accumulator, in order.
append(items, p_items) == items \o p_items

\* A faulty Ok arm: the fetched page's limit is reset like the initial
\* page's.
ok_arm_resetting_limit(cl, p) ==
    [cl EXCEPT !.items = append(@, p.items),
               !.page = [p EXCEPT !.items = <<>>, !.limit = PAGE_MAX_LIMIT]]

\* Ok(mut p) => { items.append(&mut p.items); page = p; }
ok_arm(cl, p) ==
    [cl EXCEPT !.items = append(@, p.items), !.page = [p EXCEPT !.items = <<>>]]

\* A faulty sleep: no delay after a page that ends the walk.
sleep_if_more(cl) ==
    [cl EXCEPT !.pc = "sleep",
               !.timer = IF \/ cl.dir = "forward" /\ has_forward(cl.kind, cl.page)
                            \/ cl.dir = "backward" /\ has_backward(cl.kind, cl.page)
                         THEN PAGINATION_INTERVAL ELSE 0]

\* A faulty sleep: the backward loop has no delay.
sleep_forward_only(cl) ==
    [cl EXCEPT !.pc = "sleep",
               !.timer = IF cl.dir = "forward" THEN PAGINATION_INTERVAL ELSE 0]

\* tokio::time::sleep(PAGINATION_INTERVAL).await
sleep(cl) == [cl EXCEPT !.pc = "sleep", !.timer = PAGINATION_INTERVAL]

\* A faulty match: every error leaves the loop by break.
is_break_any(err) == TRUE

\* A faulty match: no error leaves the loop by break.
is_break_never(err) == FALSE

\* Err(err) => match err { Error::NoRemainingPages => break, _ => return Err(err) }
\* TRUE when the loop is left by break.
is_break(err) == err = NoRemainingPages

\* The match of a forward loop, and what follows it: after the loop,
\* Ok(items).
forward_match(cl, res) ==
    IF res.ok THEN sleep(ok_arm(cl, res.val))
    ELSE IF is_break(res.err) THEN Return(cl, Ok(cl.items))
    ELSE Return(cl, Err(res.err))

\* A faulty forward loop: it is left once the accumulator holds as many
\* items as the page's total says there are.
forward_loop_until_total(cl, page, items) ==
    LET next_page == forward_step(cl.kind, page) IN
    IF cl.kind = "Page" /\ Len(items) >= page.total THEN Return(cl, Ok(items))
    ELSE IF next_page.pending THEN Issue(cl, "forward", page, items, next_page.req)
    ELSE forward_match([cl EXCEPT !.dir = "forward", !.page = page, !.items = items],
                       next_page.res)

\* A faulty forward loop: it keeps a record of the pages it asked for and
\* is left before it asks for one of them again.
forward_loop_once_per_page(cl, page, items) ==
    LET next_page == forward_step(cl.kind, page) IN
    IF next_page.pending
    THEN IF \E i \in 1..Len(cl.trace) :
                /\ cl.trace[i].type = "request"
                /\ Resolve(cl.kind, cl.trace[i].data) = Resolve(cl.kind, next_page.req)
         THEN Return([cl EXCEPT !.page = page, !.items = items], Ok(items))
         ELSE Issue(cl, "forward", page, items, next_page.req)
    ELSE forward_match([cl EXCEPT !.dir = "forward", !.page = page, !.items = items],
                       next_page.res)

\* loop { let next_page = page.get_next(spotify).await; match next_page .. }
forward_loop(cl, page, items) ==
    LET next_page == forward_step(cl.kind, page) IN
    IF next_page.pending THEN Issue(cl, "forward", page, items, next_page.req)
    ELSE forward_match([cl EXCEPT !.dir = "forward", !.page = page, !.items = items],
                       next_page.res)

\* A faulty forward walk: it starts from the page the call works on, which
\* after a backward walk is the last page fetched.
forward_walk_from_page(cl, items) ==
    IF has_forward(cl.kind, cl.page) THEN forward_loop(cl, cl.page, items)
    ELSE Return(cl, Ok(items))

\* Get all the next pages (if any), then Ok(items).
forward_walk(cl, items) ==
    IF has_forward(cl.kind, cl.self) THEN forward_loop(cl, cl.self, items)
    ELSE Return(cl, Ok(items))

\* A faulty backward match: a failed fetch ends the backward walk like an
\* exhausted one, and the forward walk follows.
backward_match_moving_on(cl, res) ==
    IF res.ok THEN sleep(ok_arm(cl, res.val))
    ELSE forward_walk(cl, cl.items)

\* The match of the backward loop of get_all; after the loop comes the
\* forward walk.
backward_match(cl, res) ==
    IF res.ok THEN sleep(ok_arm(cl, res.val))
    ELSE IF is_break(res.err) THEN forward_walk(cl, cl.items)
    ELSE Return(cl, Err(res.err))

\* loop { let previous_page = page.get_previous(spotify).await; match .. }
backward_loop(cl, page, items) ==
    LET previous_page == backward_step(cl.kind, page) IN
    IF previous_page.pending THEN Issue(cl, "backward", page, items, previous_page.req)
    ELSE backward_match([cl EXCEPT !.dir = "backward", !.page = page, !.items = items],
                        previous_page.res)

\* Get all the previous pages (if any), from a clone of self.
backward_walk(cl, items) ==
    IF has_backward(cl.kind, cl.self) THEN backward_loop(cl, cl.self, items)
    ELSE forward_walk(cl, items)

\* A faulty get_remaining: the accumulator starts empty, without the
\* initial page's items.
get_remaining_from_empty(cl) ==
    LET self == take_items(cl.arg)
    IN forward_walk([cl EXCEPT !.self = self], <<>>)

\* get_remaining, up to its first .await (or its return).
get_remaining(cl) ==
    LET items == cl.arg.items
        self == take_items(cl.arg)
    IN forward_walk([cl EXCEPT !.self = self], items)

\* A faulty get_all: the limit of the initial page is left as it is.
get_all_keeping_limit(cl) ==
    LET items == cl.arg.items
        self == [cl.arg EXCEPT !.items = <<>>]
    IN backward_walk([cl EXCEPT !.self = self], items)

\* get_all, up to its first .await (or its return).
get_all(cl) ==
    LET items == cl.arg.items
        self == take_items(cl.arg)
    IN backward_walk([cl EXCEPT !.self = self], items)

\* A single-step operation, up to its .await (or its return).
traverse(cl) ==
    LET r == CASE cl.op = "get_next" -> get_next(cl.arg)
               [] cl.op = "get_previous" -> get_previous(cl.arg)
               [] cl.op = "get_after" -> get_after(cl.arg)
               [] cl.op = "get_before" -> get_before(cl.arg)
        dir == IF cl.op \in {"get_next", "get_after"} THEN "forward" ELSE "backward"
    IN IF r.pending THEN Issue(cl, dir, cl.arg, <<>>, r.req)
       ELSE Return([cl EXCEPT !.dir = dir], r.res)

\* ------------------------------------------------------------------------
\* Initial states
\* ------------------------------------------------------------------------
\* The page a call is made on: the page at position 0 as some endpoint
\* returned it earlier. The endpoint field of a CursorPage is private and
\* skipped by serde, so a cursor page comes from deserialization with
\* endpoint = E::default().
InitialPages(kind) ==
    IF kind = "Page" THEN PageChoices(0)
    ELSE { Deserialize(kind, j) : j \in CursorPageChoices(0) }

NewCall(kind, op, page) ==
    [kind |-> kind, op |-> op, arg |-> page, self |-> page, page |-> page,
     items |-> <<>>, dir |-> "none", pc |-> "ready", req |-> Get(<<>>, <<>>),
     timer |-> 0, result |-> Err("pending"), trace |-> <<>>]

InitialCalls ==
    UNION { { NewCall(kind, op, page) : op \in OpsOf(kind), page \in InitialPages(kind) } :
            kind \in Kinds }

Init ==
    /\ list \in [total : Totals, layout : Layouts]
    /\ server = <<>>
    /\ \E cl \in InitialCalls : calls = (1 :> cl)

\* ------------------------------------------------------------------------
\* Actions
\* ------------------------------------------------------------------------
\* A faulty step: the accumulator is one variable that every call writes.
Step_sharing_items(c, new) ==
    /\ new.pc = "await" => NumRequests(calls[c]) < MaxFetches
    /\ calls' = [d \in DOMAIN calls |->
                   IF d = c THEN new ELSE [calls[d] EXCEPT !.items = new.items]]

\* A step of call c, which may issue a request only below the cap. The
\* call owns its page (mut self, by value) and its locals items and page:
\* the step writes the record of call c and no other.
Step(c, new) ==
    /\ new.pc = "await" => NumRequests(calls[c]) < MaxFetches
    /\ calls' = [calls EXCEPT ![c] = new]

\* The caller invokes a single-step traversal operation.
Traverse(c) ==
    /\ c \in DOMAIN calls
    /\ calls[c].pc = "ready"
    /\ calls[c].op \in SingleOps
    /\ Step(c, traverse(calls[c]))
    /\ UNCHANGED <<server, list>>

\* The caller invokes get_remaining.
GetRemaining(c) ==
    /\ c \in DOMAIN calls
    /\ calls[c].pc = "ready"
    /\ calls[c].op = "get_remaining"
    /\ Step(c, get_remaining(calls[c]))
    /\ UNCHANGED <<server, list>>

\* The caller invokes get_all.
GetAll(c) ==
    /\ c \in DOMAIN calls
    /\ calls[c].pc = "ready"
    /\ calls[c].op = "get_all"
    /\ Step(c, get_all(calls[c]))
    /\ UNCHANGED <<server, list>>

\* What the call does with the result of the request it awaited.
on_response(cl, res) ==
    IF cl.op \in SingleOps THEN Return(cl, res)
    ELSE IF cl.dir = "forward" THEN forward_match(cl, res)
    ELSE backward_match(cl, res)

\* spotify.get(..).await completes: the server answers the request (the
\* same request always gets the same answer) and the call runs on to its
\* next .await.
Respond(c) ==
    /\ c \in DOMAIN calls
    /\ calls[c].pc = "await"
    /\ LET cl == calls[c]
           key == <<cl.kind, Resolve(cl.kind, cl.req)>>
           known == key \in DOMAIN server
       IN \E res \in (IF known THEN {server[key]} ELSE Responses(cl.kind, key[2])) :
            /\ server' = IF known THEN server ELSE server @@ (key :> res)
            /\ Step(c, on_response(
                          [cl EXCEPT !.trace = Append(@, Ev("response", cl.dir, res))],
                          res))
    /\ UNCHANGED list

\* tokio::time::sleep(..).await completes and the loop runs again.
Sleep(c) ==
    /\ c \in DOMAIN calls
    /\ calls[c].pc = "sleep"
    /\ LET cl == [calls[c] EXCEPT !.trace = Append(@, Ev("delay", calls[c].dir, calls[c].timer))]
       IN Step(c, IF cl.dir = "forward" THEN forward_loop(cl, cl.page, cl.items)
                  ELSE backward_loop(cl, cl.page, cl.items))
    /\ UNCHANGED <<server, list>>

Next ==
    \/ \E c \in CallIds : Traverse(c)
    \/ \E c \in CallIds : GetRemaining(c)
    \/ \E c \in CallIds : GetAll(c)
    \/ \E c \in CallIds : Respond(c)
    \/ \E c \in CallIds : Sleep(c)

Spec == Init /\ [][Next]_vars

\* The scheduling the liveness claims rest on: the runtime polls a call
\* that can run, every request is answered and every sleep completes.
FairSpec == Spec /\ WF_vars(Next)

\* ------------------------------------------------------------------------
\* filtered_items on pages with any arrangement of null slots
\* ------------------------------------------------------------------------
RECURSIVE SeqsUpTo(_, _)
\* The sequences over S of length at most n.
SeqsUpTo(S, n) ==
    IF n = 0 THEN {<<>>}
    ELSE LET shorter == SeqsUpTo(S, n - 1)
         IN shorter \cup {Append(q, x) : q \in {r \in shorter : Len(r) = n - 1}, x \in S}

\* Vec<Option<T>> values
ItemVecs == SeqsUpTo({None} \cup {Some(v) : v \in 1..MaxValue}, MaxSlots)

FilterInit ==
    /\ list \in [total : Totals, layout : {0}]
    /\ server = <<>>
    /\ \E kind \in Kinds : \E page \in InitialPages(kind) : \E items \in ItemVecs :
         calls = (1 :> NewCall(kind, "filtered_items", [page EXCEPT !.items = items]))

\* The caller invokes filtered_items, which borrows the page: the call
\* returns the values and may be made again on the same page.
FilteredItems(c) ==
    /\ c \in DOMAIN calls
    /\ calls[c].pc \in {"ready", "done"}
    /\ calls[c].op = "filtered_items"
    /\ Len(calls[c].trace) < MaxRepeats
    /\ LET cl == calls[c]
       IN Step(c, [cl EXCEPT !.pc = "done",
                             !.trace = Append(@, Ev("return", "none", filtered_items(cl.page)))])
    /\ UNCHANGED <<server, list>>

FilterNext == \E c \in CallIds : FilteredItems(c)

FilterSpec == FilterInit /\ [][FilterNext]_vars

\* ------------------------------------------------------------------------
\* Two aggregation calls at once
\* ------------------------------------------------------------------------
\* Two tasks call get_all and get_remaining, each on a page of its own,
\* through the same client and against the same list of the server.
ConcInit ==
    /\ list \in [total : {0}, layout : {MaxItems}]
    /\ server = <<>>
    /\ \E kind \in Kinds : \E p1 \in InitialPages(kind), p2 \in InitialPages(kind) :
         /\ p1.limit = OtherLimit /\ p2.limit = OtherLimit
         /\ has_forward(kind, p2) \/ p1 = p2
         /\ calls = (1 :> NewCall(kind, "get_all", p1)) @@ (2 :> NewCall(kind, "get_remaining", p2))

ConcNext ==
    \/ \E c \in CallIds : GetRemaining(c)
    \/ \E c \in CallIds : GetAll(c)
    \/ \E c \in CallIds : Respond(c)
    \/ \E c \in CallIds : Sleep(c)

ConcSpec == ConcInit /\ [][ConcNext]_vars

\* ------------------------------------------------------------------------
\* What a call's trace and the server say
\* ------------------------------------------------------------------------
Requests(cl) == SelectSeq(cl.trace, LAMBDA e : e.type = "request")
Successes(cl) == SelectSeq(cl.trace, LAMBDA e : e.type = "response" /\ e.data.ok)
Failures(cl) == SelectSeq(cl.trace, LAMBDA e : e.type = "response" /\ ~e.data.ok)
Delays(cl) == SelectSeq(cl.trace, LAMBDA e : e.type = "delay")

IsAgg(cl) == cl.op \in AggOps
Done(cl) == cl.pc = "done"

RECURSIVE Flatten(_)
\* The concatenation of the item lists of a sequence of pages.
Flatten(pages) ==
    IF pages = <<>> THEN <<>> ELSE Head(pages).items \o Flatten(Tail(pages))

\* The server's key of the page that follows / precedes page p.
FwdKey(kind, p) ==
    IF kind = "Page"
    THEN <<kind, Some(CHOOSE pos \in Positions : Href(pos) = unwrap(p.next))>>
    ELSE <<kind, Some(unwrap(unwrap(p.cursors).after).token)>>

BackKey(kind, p) ==
    IF kind = "Page"
    THEN <<kind, Some(CHOOSE pos \in Positions : Href(pos) = unwrap(p.previous))>>
    ELSE <<kind, Some(unwrap(unwrap(p.cursors).before).token)>>

RECURSIVE FwdChain(_, _, _)
\* The pages P1, P2, .. the server links after page p, as far as the
\* server has served them, at most n of them.
FwdChain(kind, p, n) ==
    IF n = 0 \/ ~has_forward(kind, p) THEN <<>>
    ELSE LET k == FwdKey(kind, p) IN
         IF k \notin DOMAIN server \/ ~server[k].ok THEN <<>>
         ELSE <<server[k].val>> \o FwdChain(kind, server[k].val, n - 1)

RECURSIVE BackChain(_, _, _)
\* The pages P(-1), P(-2), .. the server links before page p.
BackChain(kind, p, n) ==
    IF n = 0 \/ ~has_backward(kind, p) THEN <<>>
    ELSE LET k == BackKey(kind, p) IN
         IF k \notin DOMAIN server \/ ~server[k].ok THEN <<>>
         ELSE <<server[k].val>> \o BackChain(kind, server[k].val, n - 1)

\* The last page of a chain that starts at page p.
LastOf(p, chain) == IF chain = <<>> THEN p ELSE chain[Len(chain)]

\* ------------------------------------------------------------------------
\* C1
\* ------------------------------------------------------------------------
\* C1: when get_remaining (of either page kind) has returned and no fetch
\* failed, the pages P1 .. Pn the server links after the initial page P0 end
\* in a page without forward continuation, and the call returned
\* Ok(P0.items ++ P1.items ++ .. ++ Pn.items), null slots included.
C1_RemainingIsConcatenation ==
    \A c \in DOMAIN calls :
        LET cl == calls[c]
            chain == FwdChain(cl.kind, cl.arg, MaxFetches)
        IN (Done(cl) /\ cl.op = "get_remaining" /\ Failures(cl) = <<>>) =>
             /\ ~has_forward(cl.kind, LastOf(cl.arg, chain))
             /\ cl.result = Ok(cl.arg.items \o Flatten(chain))

\* A get_remaining that returned after fetching two pages, with a null slot
\* and a value in its result.
C1_Witness ==
    \E c \in DOMAIN calls :
        LET cl == calls[c] IN
        /\ Done(cl) /\ cl.op = "get_remaining" /\ cl.result.ok
        /\ Len(Successes(cl)) = 2
        /\ \E i, j \in 1 .. Len(cl.result.val) :
             cl.result.val[i] = None /\ cl.result.val[j] # None

\* ------------------------------------------------------------------------
\* C2
\* ------------------------------------------------------------------------
\* C2: when get_all (of either page kind) has returned and no fetch failed,
\* it returned the items of the pages collected backward (P(-1), then
\* P(-2), ..), then the initial page's own items, then the items of the
\* pages collected forward (P1, then P2, ..).
C2_BackwardThenOwnThenForward ==
    \A c \in DOMAIN calls :
        LET cl == calls[c] IN
        (Done(cl) /\ cl.op = "get_all" /\ Failures(cl) = <<>>) =>
            cl.result = Ok(Flatten(BackChain(cl.kind, cl.arg, MaxFetches))
                           \o cl.arg.items
                           \o Flatten(FwdChain(cl.kind, cl.arg, MaxFetches)))

\* ------------------------------------------------------------------------
\* C3
\* ------------------------------------------------------------------------
\* C3: as soon as a fetch of get_remaining or get_all has failed, the call
\* has returned, and what it returned is that fetch's error and nothing
\* else: an Err carries no item list.
C3_FailureReturnsThatError ==
    \A c \in DOMAIN calls :
        LET cl == calls[c] IN
        (IsAgg(cl) /\ Failures(cl) # <<>>) =>
            /\ Done(cl)
            /\ Len(Failures(cl)) = 1
            /\ cl.result = Err(Failures(cl)[1].data.err)
            /\ cl.trace[Len(cl.trace)] = Failures(cl)[1]

\* The third fetch of a get_all fails, in the forward walk, after items
\* of two fetched pages were accumulated.
C3_Witness ==
    \E c \in DOMAIN calls :
        LET cl == calls[c] IN
        /\ cl.op = "get_all" /\ Done(cl) /\ ~cl.result.ok
        /\ Len(Successes(cl)) = 2 /\ Len(Failures(cl)) = 1
        /\ Failures(cl)[1].dir = "forward"
        /\ Len(cl.items) > Len(cl.arg.items)

\* ------------------------------------------------------------------------
\* C4
\* ------------------------------------------------------------------------
\* C4: get_remaining and get_all return Ok when no fetch failed (the
\* NoRemainingPages that ends a walk is not returned), and otherwise an
\* error of the request capability, never NoRemainingPages.
C4_NeverSurfacesNoRemainingPages ==
    \A c \in DOMAIN calls :
        LET cl == calls[c] IN
        (IsAgg(cl) /\ Done(cl)) =>
            IF Failures(cl) = <<>> THEN cl.result.ok
            ELSE /\ ~cl.result.ok
                 /\ cl.result.err \in RequestErrors
                 /\ cl.result.err # NoRemainingPages

\* An aggregation whose walk was ended by the traversal's NoRemainingPages
\* after a successful fetch, and which returned Ok.
C4_Witness ==
    \E c \in DOMAIN calls :
        LET cl == calls[c] IN
        /\ IsAgg(cl) /\ Done(cl) /\ cl.result.ok
        /\ Successes(cl) # <<>>
        /\ forward_step(cl.kind, cl.page) = Ready(Err(NoRemainingPages))

\* ------------------------------------------------------------------------
\* C5
\* ------------------------------------------------------------------------
\* The continuation field a single-step operation needs is absent.
Absent(op, p) ==
    CASE op = "get_next" -> p.next = None
      [] op = "get_previous" -> p.previous = None
      [] op = "get_after" -> p.cursors = None \/ p.cursors[1].after = None
      [] op = "get_before" -> p.cursors = None \/ p.cursors[1].before = None

\* C5: a single-step traversal called on a page whose continuation field
\* is absent returns Err(NoRemainingPages), without issuing a request.
C5_AbsentContinuationFails ==
    \A c \in DOMAIN calls :
        LET cl == calls[c] IN
        (cl.op \in SingleOps /\ cl.pc # "ready" /\ Absent(cl.op, cl.arg)) =>
            /\ Done(cl)
            /\ cl.result = Err(NoRemainingPages)
            /\ cl.trace = <<>>

\* get_after has returned on a page that has cursors but no after token.
C5_Witness ==
    \E c \in DOMAIN calls :
        LET cl == calls[c] IN
        /\ cl.op = "get_after" /\ Done(cl)
        /\ cl.arg.cursors # None /\ cl.arg.cursors[1].after = None
        /\ cl.arg.cursors[1].before # None

\* ------------------------------------------------------------------------
\* C6
\* ------------------------------------------------------------------------
\* The page the walk of call cl in direction dir works on: the page its
\* last successful fetch in that direction returned, the initial page
\* when there was none.
WorkingPage(cl, dir) ==
    LET got == SelectSeq(Successes(cl), LAMBDA e : e.dir = dir)
    IN IF got = <<>> THEN cl.arg ELSE got[Len(got)].data.val

HasContinuation(kind, dir, p) ==
    IF dir = "forward" THEN has_forward(kind, p) ELSE has_backward(kind, p)

\* The call stands at the cap on requests with a further page to fetch:
\* the chain is longer than the model follows it.
Capped(cl) ==
    /\ cl.pc = "sleep"
    /\ NumRequests(cl) = MaxFetches
    /\ LET new == IF cl.dir = "forward" THEN forward_loop(cl, cl.page, cl.items)
                  ELSE backward_loop(cl, cl.page, cl.items)
       IN new.pc = "await"

\* An aggregation call requests a page only from a working page that
\* carries the continuation of the walk's direction, leaves the backward
\* walk only at a working page without backward continuation, and returns
\* Ok only at a working page without forward continuation.
C6_WalkFollowsContinuation ==
    \A c \in DOMAIN calls :
        LET cl == calls[c] IN
        IsAgg(cl) =>
            /\ \A i \in 1 .. Len(cl.trace) :
                 cl.trace[i].type = "request" =>
                   LET before == [cl EXCEPT !.trace = SubSeq(cl.trace, 1, i - 1)]
                   IN /\ HasContinuation(cl.kind, cl.trace[i].dir,
                                         WorkingPage(before, cl.trace[i].dir))
                      /\ cl.trace[i].dir = "forward" /\ cl.op = "get_all" =>
                           ~has_backward(cl.kind, WorkingPage(before, "backward"))
                      /\ cl.trace[i].dir = "backward" => cl.op = "get_all"
            /\ (Done(cl) /\ cl.result.ok) =>
                 /\ ~has_forward(cl.kind, WorkingPage(cl, "forward"))
                 /\ cl.op = "get_all" =>
                      ~has_backward(cl.kind, WorkingPage(cl, "backward"))

\* Every call has returned, or stands at the cap on requests.
C6_Returned ==
    \A c \in DOMAIN calls : Done(calls[c]) \/ Capped(calls[c])

\* C6: in an aggregation call the walk in a direction goes on exactly as
\* long as the working page carries that direction's continuation (total
\* and the number of items collected play no part), and the call
\* eventually returns unless the chain is longer than the cap on requests.
C6_WalkEndsAtMissingContinuation ==
    []C6_WalkFollowsContinuation /\ <>C6_Returned

\* An aggregation returned Ok after walking on from a fetched page without
\* items, with fewer items collected than total says.
C6_Witness ==
    \E c \in DOMAIN calls :
        LET cl == calls[c] IN
        /\ IsAgg(cl) /\ Done(cl) /\ cl.result.ok
        /\ Len(Successes(cl)) >= 2
        /\ Successes(cl)[1].data.val.items = <<>>
        /\ Len(cl.result.val) < list.total

\* ------------------------------------------------------------------------
\* C7
\* ------------------------------------------------------------------------
\* The limit parameter of a request.
LimitOf(kind, req) ==
    IF kind = "Page" THEN req.query[1][2] ELSE req.query[2][2].decimal

\* C7: every request of get_remaining and get_all carries
\* limit = PAGE_MAX_LIMIT.
C7_EveryFetchCarriesMaxLimit ==
    \A c \in DOMAIN calls :
        LET cl == calls[c] IN
        IsAgg(cl) =>
            \A i \in 1 .. Len(Requests(cl)) :
                LimitOf(cl.kind, Requests(cl)[i].data) = PAGE_MAX_LIMIT

\* ------------------------------------------------------------------------
\* C8
\* ------------------------------------------------------------------------
\* C8: in the trace of an aggregation call, a full delay lies between
\* every successful fetch and every later request, hence between any two
\* consecutive fetches, the last backward and the first forward one of
\* get_all included.
C8_DelayBetweenFetches ==
    \A c \in DOMAIN calls :
        LET cl == calls[c] IN
        IsAgg(cl) =>
            \A i, j \in 1 .. Len(cl.trace) :
                (/\ i < j
                 /\ cl.trace[i].type \in {"request", "response"}
                 /\ cl.trace[i].type = "response" => cl.trace[i].data.ok
                 /\ cl.trace[j].type = "request") =>
                    \E k \in (i + 1) .. (j - 1) :
                        /\ cl.trace[k].type = "delay"
                        /\ cl.trace[k].data >= PAGINATION_INTERVAL

\* get_all has issued its first forward request right after its backward
\* walk fetched pages.
C8_Witness ==
    \E c \in DOMAIN calls :
        LET cl == calls[c] IN
        /\ cl.op = "get_all" /\ cl.pc = "await" /\ cl.dir = "forward"
        /\ Len(Requests(cl)) = 3
        /\ Requests(cl)[2].dir = "backward"

\* ------------------------------------------------------------------------
\* C9
\* ------------------------------------------------------------------------
\* C9: in the trace of an aggregation call every delay lasts
\* PAGINATION_INTERVAL and directly follows a successful fetch, every
\* successful fetch is directly followed by a delay, and a call that has
\* returned has awaited exactly as many delays as it had successful
\* fetches.
C9_OneDelayPerSuccessfulFetch ==
    \A c \in DOMAIN calls :
        LET cl == calls[c] IN
        IsAgg(cl) =>
            /\ \A i \in 1 .. Len(cl.trace) :
                 /\ cl.trace[i].type = "delay" =>
                      /\ cl.trace[i].data = PAGINATION_INTERVAL
                      /\ i > 1
                      /\ cl.trace[i - 1].type = "response"
                      /\ cl.trace[i - 1].data.ok
                 /\ (cl.trace[i].type = "response" /\ cl.trace[i].data.ok
                       /\ i < Len(cl.trace)) =>
                      cl.trace[i + 1].type = "delay"
            /\ Done(cl) => Len(Delays(cl)) = Len(Successes(cl))

\* get_remaining on a chain P0 -> P1 -> P2 has returned Ok after exactly
\* two delays.
C9_Witness ==
    \E c \in DOMAIN calls :
        LET cl == calls[c] IN
        /\ cl.op = "get_remaining" /\ Done(cl) /\ cl.result.ok
        /\ Len(Requests(cl)) = 2
        /\ Len(Delays(cl)) = 2

\* ------------------------------------------------------------------------
\* C10
\* ------------------------------------------------------------------------
\* C10: a cursor page call that awaits a request has sent it to the URL of
\* the Endpoint Descriptor of the page it works on, with the after (resp.
\* before) token of that page's cursors and that page's limit as text; the
\* target is not the page's own next URL.
C10_CursorRequestTargetsEndpoint ==
    \A c \in DOMAIN calls :
        LET cl == calls[c] IN
        (cl.kind = "CursorPage" /\ cl.pc = "await") =>
            /\ cl.req.path = endpoint_url(cl.page.endpoint)
            /\ cl.req.query =
                 IF cl.dir = "forward"
                 THEN << <<"after", cl.page.cursors[1].after[1]>>,
                         <<"limit", to_string(cl.page.limit)>> >>
                 ELSE << <<"before", cl.page.cursors[1].before[1]>>,
                         <<"limit", to_string(cl.page.limit)>> >>
            /\ cl.page.next # None =>
                 /\ cl.req.path # cl.page.next[1]
                 /\ <<API_URL>> \o cl.req.path # cl.page.next[1]

\* get_before awaits its request on a page that has a next URL.
C10_Witness ==
    \E c \in DOMAIN calls :
        LET cl == calls[c] IN
        /\ cl.op = "get_before" /\ cl.pc = "await"
        /\ cl.page.next # None

\* ------------------------------------------------------------------------
\* C11
\* ------------------------------------------------------------------------
\* The stored continuation URL of the direction a call on an offset page
\* moves in.
StoredUrl(cl) == IF cl.dir = "forward" THEN cl.page.next ELSE cl.page.previous

\* C11: an offset page call that awaits a request moves from a page whose
\* stored URL of that direction is present; the path of the request is that
\* URL without the API origin, so that the client, which prepends the
\* origin, addresses the stored URL with the origin once; its only query
\* parameter is limit = the page's limit.  get_next / get_previous called
\* on a page with the URL present has issued exactly one request.
C11_OffsetRequestIsStoredUrlSansOrigin ==
    \A c \in DOMAIN calls :
        LET cl == calls[c] IN
        cl.kind = "Page" =>
            /\ cl.pc = "await" =>
                 /\ StoredUrl(cl) # None
                 /\ <<API_URL>> \o cl.req.path = StoredUrl(cl)[1]
                 /\ \A i \in 1..Len(cl.req.path) : cl.req.path[i] # API_URL
                 /\ cl.req.query = << <<"limit", cl.page.limit>> >>
            /\ (cl.op \in SingleOps /\ cl.pc # "ready" /\ ~Absent(cl.op, cl.arg)) =>
                 /\ Len(Requests(cl)) = 1
                 /\ cl.page = cl.arg

\* get_next and get_previous have each issued their one request from a
\* page with the URL present, and get_next has got the page back.
C11_Witness ==
    \E c \in DOMAIN calls :
        LET cl == calls[c] IN
        /\ cl.op = "get_next" /\ Done(cl) /\ cl.result.ok
        /\ cl.arg.next = Some(Href(1))
        /\ Requests(cl)[1].data = Get(<<Path(1)>>, << <<"limit", cl.arg.limit>> >>)
        /\ cl.arg.limit = OtherLimit

\* ------------------------------------------------------------------------
\* C12
\* ------------------------------------------------------------------------
\* The indices of the slots of items that hold a value, in order.
PresentSlots(items) == SelectSeq([i \in 1..Len(items) |-> i], LAMBDA i : items[i] # None)

\* C12: every return of filtered_items is the sequence of the values of
\* the page's present slots in their order in items, as long as the number
\* of present slots; the page, items included, is as it was before the
\* call, and a repeated call has returned the same sequence.
C12_FilteredItemsKeepsPresentInOrder ==
    \A c \in DOMAIN calls :
        LET cl == calls[c]
            slots == PresentSlots(cl.arg.items)
        IN cl.op = "filtered_items" =>
            /\ cl.page = cl.arg
            /\ \A k \in 1..Len(cl.trace) :
                 LET out == cl.trace[k].data IN
                 /\ cl.trace[k].type = "return"
                 /\ Len(out) = Cardinality({i \in 1..Len(cl.arg.items) : cl.arg.items[i] # None})
                 /\ \A n \in 1..Len(out) : Some(out[n]) = cl.arg.items[slots[n]]
                 /\ out = cl.trace[1].data

\* filtered_items has returned twice on a page whose items hold a null
\* slot between two values, the larger value first.
C12_Witness ==
    \E c \in DOMAIN calls :
        LET cl == calls[c] IN
        /\ cl.op = "filtered_items" /\ Len(cl.trace) = 2
        /\ cl.kind = "CursorPage"
        /\ cl.arg.items = <<Some(2), None, Some(1)>>
        /\ cl.trace[2].data = <<2, 1>>

\* ------------------------------------------------------------------------
\* C13
\* ------------------------------------------------------------------------
RECURSIVE RunAlone(_, _)
\* Where the aggregation call cl stands when it runs on by itself, in at
\* most n steps, against the answers the server has given: at its return,
\* at a request the server has not seen, or at the cap on requests.
RunAlone(cl, n) ==
    IF n = 0 \/ cl.pc = "done" THEN cl
    ELSE LET key == <<cl.kind, Resolve(cl.kind, cl.req)>>
             slept == [cl EXCEPT !.trace = Append(@, Ev("delay", cl.dir, cl.timer))]
             new == CASE cl.pc = "ready" ->
                           IF cl.op = "get_remaining" THEN get_remaining(cl) ELSE get_all(cl)
                      [] cl.pc = "await" ->
                           IF key \in DOMAIN server
                           THEN on_response([cl EXCEPT !.trace =
                                                Append(@, Ev("response", cl.dir, server[key]))],
                                            server[key])
                           ELSE cl
                      [] cl.pc = "sleep" ->
                           IF slept.dir = "forward"
                           THEN forward_loop(slept, slept.page, slept.items)
                           ELSE backward_loop(slept, slept.page, slept.items)
         IN IF new = cl \/ (new.pc = "await" /\ NumRequests(cl) >= MaxFetches) THEN cl
            ELSE RunAlone(new, n - 1)

\* More steps than a call takes below the cap.
AloneSteps == 3 * MaxFetches + 3

\* C13: with two aggregation calls running at once, in every state each
\* call stands on the run it makes alone against the same server: run on
\* by itself from where it stands, it ends where the same call, started
\* afresh on its page and run alone, ends; once it has returned, its
\* requests, delays and result are those of the run alone, whatever the
\* other call did, failed or not.
C13_ConcurrentCallsRunAsAlone ==
    \A c \in DOMAIN calls :
        LET cl == calls[c]
            alone == RunAlone(NewCall(cl.kind, cl.op, cl.arg), AloneSteps)
        IN IsAgg(cl) =>
            /\ RunAlone(cl, AloneSteps) = alone
            /\ Done(cl) => cl = alone

\* Two calls on pages of the same list have both returned after two
\* requests or more each: the first with the error of a failed fetch, the
\* second with its items.
C13_Witness ==
    /\ DOMAIN calls = {1, 2}
    /\ calls[1].kind = calls[2].kind
    /\ Done(calls[1]) /\ ~calls[1].result.ok
    /\ Done(calls[2]) /\ calls[2].result.ok
    /\ Len(Requests(calls[1])) >= 2
    /\ Len(Requests(calls[2])) >= 2

\* ------------------------------------------------------------------------
\* C14
\* ------------------------------------------------------------------------
RequestsIn(cl, dir) == SelectSeq(Requests(cl), LAMBDA e : e.dir = dir)

\* The direction has no more pages: the page reached in it, the initial
\* page if none was fetched, has no continuation of that direction.
Exhausted(cl, dir) == ~HasContinuation(cl.kind, dir, WorkingPage(cl, dir))

\* get_all has left its backward walk by exhaustion: it is past its start,
\* no backward fetch failed, and it is not at the delay of the last
\* backward fetch.
BackwardWalkEnded(cl) ==
    /\ cl.op = "get_all" /\ cl.pc # "ready"
    /\ Failures(cl) = <<>> \/ Failures(cl)[1].dir = "forward"
    /\ Exhausted(cl, "backward")
    /\ ~(cl.pc = "sleep" /\ cl.dir = "backward")

\* C14: in an aggregation call a request of a direction is made only while
\* that direction has more pages: no request follows, in the same
\* direction, a fetched page without the continuation, and none is made in
\* a direction the initial page has no continuation of.  In get_all, once
\* the backward walk has ended by exhaustion, a forward request has been
\* made if and only if the initial page has a forward continuation, and
\* the first one goes out from the initial page.
C14_DirectionsExhaustOnce ==
    \A c \in DOMAIN calls :
        LET cl == calls[c] IN
        IsAgg(cl) =>
            /\ \A dir \in {"forward", "backward"} :
                 /\ ~HasContinuation(cl.kind, dir, cl.arg) => RequestsIn(cl, dir) = <<>>
                 /\ \A i \in 1..Len(cl.trace) : \A j \in (i + 1)..Len(cl.trace) :
                      ( /\ cl.trace[i].type = "response" /\ cl.trace[i].dir = dir
                        /\ cl.trace[i].data.ok
                        /\ ~HasContinuation(cl.kind, dir, cl.trace[i].data.val) )
                      => ~(cl.trace[j].type = "request" /\ cl.trace[j].dir = dir)
            /\ BackwardWalkEnded(cl) =>
                 /\ RequestsIn(cl, "forward") # <<>> <=> has_forward(cl.kind, cl.arg)
                 /\ RequestsIn(cl, "forward") # <<>> =>
                      RequestsIn(cl, "forward")[1].data =
                          forward_step(cl.kind, take_items(cl.arg)).req

\* get_all on a page without a forward continuation has walked backward
\* to the first page and returned without a forward request.
C14_Witness ==
    \E c \in DOMAIN calls :
        LET cl == calls[c] IN
        /\ cl.op = "get_all" /\ Done(cl) /\ cl.result.ok
        /\ ~has_forward(cl.kind, cl.arg)
        /\ Len(RequestsIn(cl, "backward")) >= 2
        /\ RequestsIn(cl, "forward") = <<>>

\* ------------------------------------------------------------------------
\* C15
\* ------------------------------------------------------------------------
\* The pages fetched in direction dir before position i of the trace.
FetchedBefore(cl, dir, i) ==
    SelectSeq(SubSeq(cl.trace, 1, i - 1),
              LAMBDA e : e.type = "response" /\ e.dir = dir /\ e.data.ok)

\* C15: in an aggregation call the first request of each direction carries
\* limit = PAGE_MAX_LIMIT, the limit the initial page was reset to; every
\* later request of the direction carries the limit of the page fetched
\* just before it in that direction, as the server returned it.
C15_OnlyFirstFetchCarriesMaxLimit ==
    \A c \in DOMAIN calls :
        LET cl == calls[c] IN
        IsAgg(cl) =>
            \A i \in 1..Len(cl.trace) :
                LET e == cl.trace[i]
                    got == FetchedBefore(cl, e.dir, i)
                IN e.type = "request" =>
                     LimitOf(cl.kind, e.data) =
                        IF got = <<>> THEN PAGE_MAX_LIMIT ELSE got[Len(got)].data.val.limit

\* get_all has fetched a backward page and a forward page that the server
\* returned with another limit than PAGE_MAX_LIMIT, and has then requested
\* the second forward page with that limit; its first forward request
\* carried PAGE_MAX_LIMIT.
C15_Witness ==
    \E c \in DOMAIN calls :
        LET cl == calls[c]
            fwd == SelectSeq(Requests(cl), LAMBDA e : e.dir = "forward")
        IN /\ cl.op = "get_all" /\ cl.pc = "await"
           /\ FetchedBefore(cl, "backward", Len(cl.trace)) # <<>>
           /\ FetchedBefore(cl, "backward", Len(cl.trace))[1].data.val.limit = OtherLimit
           /\ Len(fwd) = 2
           /\ LimitOf(cl.kind, fwd[1].data) = PAGE_MAX_LIMIT
           /\ LimitOf(cl.kind, fwd[2].data) = OtherLimit

\* ------------------------------------------------------------------------
\* C16
\* ------------------------------------------------------------------------
\* C16: get_all and get_remaining called on the same initial page, which
\* has no backward continuation, against the same server: once both have
\* returned they have returned the same result, items or error, after the
\* same sequence of requests and responses and the same number of delays,
\* and until then the trace of one is a prefix of the trace of the other.
C16_GetAllIsGetRemainingWithoutBackward ==
    \A c \in DOMAIN calls : \A d \in DOMAIN calls :
        LET a == calls[c]
            r == calls[d]
            n == IF Len(a.trace) <= Len(r.trace) THEN Len(a.trace) ELSE Len(r.trace)
        IN ( /\ a.op = "get_all" /\ r.op = "get_remaining"
             /\ a.kind = r.kind /\ a.arg = r.arg
             /\ ~has_backward(a.kind, a.arg) ) =>
               /\ SubSeq(a.trace, 1, n) = SubSeq(r.trace, 1, n)
               /\ (Done(a) /\ Done(r)) =>
                    /\ a.result = r.result
                    /\ Requests(a) = Requests(r)
                    /\ Len(Delays(a)) = Len(Delays(r))

\* get_all and get_remaining on the same page without a backward
\* continuation have both returned the items of the page and of two
\* fetched pages.
C16_Witness ==
    \E c \in DOMAIN calls : \E d \in DOMAIN calls :
        LET a == calls[c]
            r == calls[d]
        IN /\ a.op = "get_all" /\ r.op = "get_remaining"
           /\ a.arg = r.arg /\ ~has_backward(a.kind, a.arg)
           /\ Done(a) /\ Done(r) /\ r.result.ok
           /\ Len(Requests(a)) = 2 /\ Len(Delays(r)) = 2
           /\ a.result = Ok(Flatten(<<a.arg>> \o FwdChain(a.kind, a.arg, 2)))

\* ------------------------------------------------------------------------
\* C17
\* ------------------------------------------------------------------------
\* C17: when a fetch of the backward walk of get_all has failed, the call
\* has returned that error and the failed response is the last event of
\* its trace: no request and no delay follows it, and no forward request
\* was made at all.
C17_BackwardFailureEndsGetAll ==
    \A c \in DOMAIN calls :
        LET cl == calls[c] IN
        cl.op = "get_all" =>
            \A i \in 1..Len(cl.trace) :
                LET e == cl.trace[i] IN
                (e.type = "response" /\ e.dir = "backward" /\ ~e.data.ok) =>
                    /\ i = Len(cl.trace)
                    /\ Done(cl) /\ cl.result = Err(e.data.err)
                    /\ RequestsIn(cl, "forward") = <<>>
                    /\ Len(Delays(cl)) = Len(Successes(cl))

\* get_all on a page with a forward continuation has fetched one backward
\* page and returned the error of its second backward fetch.
C17_Witness ==
    \E c \in DOMAIN calls :
        LET cl == calls[c] IN
        /\ cl.op = "get_all" /\ Done(cl)
        /\ has_forward(cl.kind, cl.arg)
        /\ Len(RequestsIn(cl, "backward")) = 2 /\ Len(Successes(cl)) = 1
        /\ cl.result = Err("Deserialization")

\* ------------------------------------------------------------------------
\* C18
\* ------------------------------------------------------------------------
\* C18: every request of an aggregation call on a cursor page goes to the
\* URL of the initial page's Endpoint Descriptor, the requests made from
\* fetched pages included; a fetched page carries the Default descriptor.
C18_CursorWalkKeepsEndpoint ==
    \A c \in DOMAIN calls :
        LET cl == calls[c] IN
        (IsAgg(cl) /\ cl.kind = "CursorPage") =>
            /\ \A i \in 1..Len(Requests(cl)) :
                 Requests(cl)[i].data.path = endpoint_url(cl.arg.endpoint)
            /\ \A i \in 1..Len(Successes(cl)) :
                 Successes(cl)[i].data.val.endpoint = DefaultEndpoint

\* get_all on a cursor page awaits a request it made from a fetched
\* forward page, after one it made from a fetched backward page.
C18_Witness ==
    \E c \in DOMAIN calls :
        LET cl == calls[c] IN
        /\ cl.op = "get_all" /\ cl.kind = "CursorPage" /\ cl.pc = "await"
        /\ Len(RequestsIn(cl, "backward")) = 2
        /\ Len(RequestsIn(cl, "forward")) = 2
        /\ cl.page # cl.self
        /\ cl.req.path = endpoint_url(cl.arg.endpoint)

\* ------------------------------------------------------------------------
\* C19
\* ------------------------------------------------------------------------
\* The initial page has a continuation in none of the directions the
\* operation walks.
NothingToWalk(cl) ==
    /\ ~has_forward(cl.kind, cl.arg)
    /\ cl.op = "get_all" => ~has_backward(cl.kind, cl.arg)

\* C19: an aggregation call on a page with nothing to walk has returned
\* exactly the page's items, null slots included, with no request and no
\* delay.  A call that has returned Ok has made as many requests as it has
\* fetched pages, one for each further page of the chains it walked: the
\* traversal that ended a walk with NoRemainingPages made none.
C19_NoRequestWithoutContinuation ==
    \A c \in DOMAIN calls :
        LET cl == calls[c] IN
        (IsAgg(cl) /\ cl.pc # "ready") =>
            /\ NothingToWalk(cl) =>
                 /\ Done(cl) /\ cl.result = Ok(cl.arg.items)
                 /\ cl.trace = <<>>
            /\ (Done(cl) /\ cl.result.ok) =>
                 /\ Len(Requests(cl)) = Len(Successes(cl))
                 /\ Len(Requests(cl)) =
                      Len(FwdChain(cl.kind, cl.arg, MaxFetches))
                      + (IF cl.op = "get_all"
                         THEN Len(BackChain(cl.kind, cl.arg, MaxFetches)) ELSE 0)

\* get_remaining has returned the two slots of a page without a forward
\* continuation, with nothing in its trace.
C19_Witness ==
    \E c \in DOMAIN calls :
        LET cl == calls[c] IN
        /\ cl.op = "get_remaining" /\ Done(cl)
        /\ ~has_forward(cl.kind, cl.arg)
        /\ Len(cl.arg.items) = 2
        /\ cl.result = Ok(cl.arg.items)
        /\ cl.trace = <<>>

\* ------------------------------------------------------------------------
\* C20
\* ------------------------------------------------------------------------
\* get_remaining walks a chain that loops: the forward continuation of
\* the page it has reached leads to a page it has already fetched.
OnCycle(cl) ==
    /\ cl.op = "get_remaining" /\ Failures(cl) = <<>>
    /\ LET next_page == forward_step(cl.kind, WorkingPage(cl, "forward"))
       IN /\ next_page.pending
          /\ \E i \in 1..(Len(cl.trace) - 1) :
               /\ cl.trace[i].type = "request"
               /\ cl.trace[i + 1].type = "response" /\ cl.trace[i + 1].data.ok
               /\ Resolve(cl.kind, cl.trace[i].data) = Resolve(cl.kind, next_page.req)

C20_OnCycleNotReturned ==
    \A c \in DOMAIN calls : OnCycle(calls[c]) => ~Done(calls[c])

C20_SomeOnCycle == \E c \in DOMAIN calls : OnCycle(calls[c])

C20_SomeOnCycleAtCap ==
    \E c \in DOMAIN calls : OnCycle(calls[c]) /\ Capped(calls[c])

\* C20: get_remaining on a chain that loops, against a server that does
\* not fail, never returns: the pages it has visited, the number of items
\* it holds and total do not stop it, and it goes on fetching up to any
\* number of requests, here up to the cap on requests.
C20_LoopNeverReturns ==
    []C20_OnCycleNotReturned /\ (C20_SomeOnCycle ~> C20_SomeOnCycleAtCap)

\* get_remaining on an offset page stands at the cap on requests on a chain
\* that loops, holding more items than total says there are, after asking
\* for the same page twice.
C20_Witness ==
    \E c \in DOMAIN calls :
        LET cl == calls[c] IN
        /\ cl.kind = "Page" /\ OnCycle(cl) /\ Capped(cl)
        /\ Len(cl.items) > cl.arg.total
        /\ \E i \in 1..Len(Requests(cl)) : \E j \in (i + 1)..Len(Requests(cl)) :
             Resolve(cl.kind, Requests(cl)[i].data) = Resolve(cl.kind, Requests(cl)[j].data)

====
